---- MODULE Spec2Model ----
(***************************************************************************)
(* The trace viewer orchestrator (class TraceViewer) and its display       *)
(* surface (class TraceViewerView) as a state machine.                     *)
(*                                                                         *)
(* JavaScript runs one callback at a time.  An operation is atomic up to   *)
(* its next await.  `await findNode(...)` and `await asExternalUri(...)`   *)
(* wait for I/O: any event may run before the continuation.  The return    *)
(* from `await this._startIfNeeded(config)` into open() is a promise       *)
(* continuation (a microtask): before it runs, other promise continuations *)
(* and calls made by callers may run, but no I/O event (process events,    *)
(* host events, settings notifications) is delivered.                      *)
(*                                                                         *)
(* A process that has exited and a surface that has been disposed are      *)
(* garbage: their slot is free again.  MaxProcs and MaxViews bound the     *)
(* processes alive, and the surfaces undisposed, at the same time.         *)
(***************************************************************************)
EXTENDS Integers, Sequences, FiniteSets, TLC

\* ---------------------------------------------------------------- bounds
MaxProcs == 2        \* processes that have not exited, at the same time
MaxViews == 2        \* surfaces that are not disposed, at the same time
MaxTasks == 1        \* open()/willRunTests() calls suspended at the same time
MaxWrites == 1       \* lines of a process's input stream that are kept (the last ones)
MaxPending == 1      \* stdout handlers suspended at asExternalUri
BurstTasks == 2      \* MaxTasks of the workload of concurrent calls
BurstPending == 2    \* MaxPending of the workload of repeated output
BurstWrites == 2     \* MaxWrites of the workloads of repeated calls
SoloProcs == 1       \* MaxProcs of the workloads of one process at a time
SoloViews == 1       \* MaxViews of the workloads of one surface at a time

\* ------------------------------------------------- program constants
\* versions are the code's decimal numbers times 100 (1.35 -> 135)
kMinVersion == 135
kEmbeddedMinVersion == 145

\* ---------------------------------------------------------------- inputs
Undefined == [kind |-> "undefined", scheme |-> "", path |-> ""]
Str(s) == [kind |-> "string", scheme |-> "", path |-> s]
UriOf(scheme, p) == [kind |-> "uri", scheme |-> scheme, path |-> p]

\* config.version of the configurations callers pass
Versions == {130, 140, 150}

\* vscode.ColorThemeKind: Light, Dark, HighContrast, HighContrastLight
ThemeKinds == {1, 2, 3, 4}

\* the artifacts callers pass to open(): the empty string, a path, a file Uri
Files == {Str(""), Str("/a"), UriOf("file", "/b")}

\* a stdout chunk, as data.toString().split('\n') sees it
Chunks == {<<"", "http://u1">>, <<"http://u1", "">>, <<"http://u2", "">>}

\* data.type of the messages that arrive at the window of a surface's page
MessageTypes == {"keyup", "keydown", "click"}

\* the origins those messages come from: the trace viewer servers and the host
Origins == {"http://u1", "http://u2", "vscode-webview://host"}

\* the operations of callers and the events a run may contain besides open()
Ops == {"willRunTests", "close", "dispose", "showTrace", "embedTraceViewer",
        "exit", "error", "stdout", "hostClose",
        "theme", "configuration", "frameLoad", "windowMessage"}

\* what a run records besides the program's state: the messages surfaced to the
\* user, whether the show setting has closed a process, the messages posted to
\* the surfaces, the chunks with an empty first line, the artifacts requested,
\* the messages relayed by the pages of the surfaces
Watches == {"messages", "offClosed", "posts", "emptyLines", "requests",
            "relays"}

\* What the callers, the user and the processes of one run do: the inputs they
\* draw from, the operations and events that occur, and how many calls and
\* handlers are suspended at the same time.
MainWorkload ==
  [themes |-> {2}, versions |-> {140, 150}, files |-> {Str("/a")},
   chunks |-> {<<"http://u1", "">>}, remotes |-> {FALSE}, ops |-> Ops, watch |-> {},
   maxTasks |-> MaxTasks, maxWrites |-> MaxWrites, maxPending |-> MaxPending,
   maxProcs |-> MaxProcs, maxViews |-> MaxViews,
   messages |-> {<<"keydown", "http://u1">>}]
\* several calls suspended at the same time
BurstWorkload ==
  [themes |-> {2}, versions |-> {150}, files |-> {Str("/a")},
   chunks |-> {<<"http://u1", "">>}, remotes |-> {FALSE}, ops |-> Ops, watch |-> {},
   maxTasks |-> BurstTasks, maxWrites |-> BurstWrites, maxPending |-> MaxPending,
   maxProcs |-> MaxProcs, maxViews |-> MaxViews,
   messages |-> {<<"keydown", "http://u1">>}]
\* every kind of artifact, in a remote context
FilesWorkload ==
  [themes |-> {2}, versions |-> {150}, files |-> Files,
   chunks |-> {<<"http://u1", "">>}, remotes |-> {TRUE}, ops |-> Ops, watch |-> {},
   maxTasks |-> MaxTasks, maxWrites |-> BurstWrites, maxPending |-> MaxPending,
   maxProcs |-> MaxProcs, maxViews |-> MaxViews,
   messages |-> {<<"keydown", "http://u1">>}]
\* a configuration below the overall minimum, with the messages recorded
MessagesWorkload ==
  [themes |-> {2}, versions |-> {130, 150}, files |-> {Str("/a")},
   chunks |-> {<<"http://u1", "">>}, remotes |-> {FALSE}, ops |-> Ops,
   watch |-> {"messages"},
   maxTasks |-> MaxTasks, maxWrites |-> MaxWrites, maxPending |-> MaxPending,
   maxProcs |-> MaxProcs, maxViews |-> MaxViews,
   messages |-> {<<"keydown", "http://u1">>}]
\* the show setting closing a process, recorded
ShowOffWorkload ==
  [themes |-> {2}, versions |-> {150}, files |-> {Str("/a")},
   chunks |-> {<<"http://u1", "">>}, remotes |-> {FALSE}, ops |-> Ops,
   watch |-> {"offClosed"},
   maxTasks |-> MaxTasks, maxWrites |-> MaxWrites, maxPending |-> MaxPending,
   maxProcs |-> MaxProcs, maxViews |-> MaxViews,
   messages |-> {<<"keydown", "http://u1">>}]
\* versions on both sides of the embedding minimum, in a local and in a
\* remote context
LaunchWorkload ==
  [themes |-> {2}, versions |-> {140, 150}, files |-> {Str("/a")},
   chunks |-> {<<"http://u1", "">>}, remotes |-> BOOLEAN, ops |-> Ops,
   watch |-> {},
   maxTasks |-> MaxTasks, maxWrites |-> MaxWrites, maxPending |-> MaxPending,
   maxProcs |-> MaxProcs, maxViews |-> MaxViews,
   messages |-> {<<"keydown", "http://u1">>}]
\* every kind of output chunk, with several stdout handlers suspended
OutputWorkload ==
  [themes |-> {2}, versions |-> {150}, files |-> {Str("/a")},
   chunks |-> Chunks, remotes |-> {FALSE}, ops |-> Ops, watch |-> {},
   maxTasks |-> MaxTasks, maxWrites |-> MaxWrites, maxPending |-> BurstPending,
   maxProcs |-> MaxProcs, maxViews |-> MaxViews,
   messages |-> {<<"keydown", "http://u1">>}]
\* chunks with and without an empty first line, the empty ones recorded
EmptyLineWorkload ==
  [themes |-> {2}, versions |-> {150}, files |-> {Str("/a")},
   chunks |-> {<<"", "http://u1">>, <<"http://u1", "">>}, remotes |-> {FALSE},
   ops |-> Ops, watch |-> {"emptyLines"},
   maxTasks |-> MaxTasks, maxWrites |-> MaxWrites, maxPending |-> MaxPending,
   maxProcs |-> MaxProcs, maxViews |-> MaxViews,
   messages |-> {<<"keydown", "http://u1">>}]
\* calls without an artifact, for every version, with the calls recorded
NoFileWorkload ==
  [themes |-> {2}, versions |-> {130, 150}, files |-> {Str("")},
   chunks |-> {<<"http://u1", "">>}, remotes |-> {FALSE}, ops |-> Ops,
   watch |-> {"messages"},
   maxTasks |-> MaxTasks, maxWrites |-> MaxWrites, maxPending |-> MaxPending,
   maxProcs |-> MaxProcs, maxViews |-> MaxViews,
   messages |-> {<<"keydown", "http://u1">>}]
\* two artifacts and several calls suspended at the same time, one process
\* and one surface at a time, with the artifact last requested recorded
ReplayWorkload ==
  [themes |-> {2}, versions |-> {150}, files |-> {Str("/a"), Str("/c")},
   chunks |-> {<<"http://u1", "">>}, remotes |-> {FALSE}, ops |-> Ops,
   watch |-> {"requests"},
   maxTasks |-> BurstTasks, maxWrites |-> MaxWrites, maxPending |-> MaxPending,
   maxProcs |-> SoloProcs, maxViews |-> SoloViews,
   messages |-> {<<"keydown", "http://u1">>}]
\* endpoints of two origins and every kind of message, one process and one
\* surface at a time, with the messages relayed by the pages recorded
RelayWorkload ==
  [themes |-> {2}, versions |-> {150}, files |-> {Str("/a")},
   chunks |-> {<<"http://u1", "">>, <<"http://u2", "">>}, remotes |-> {FALSE},
   ops |-> Ops, watch |-> {"relays"},
   maxTasks |-> MaxTasks, maxWrites |-> MaxWrites, maxPending |-> MaxPending,
   maxProcs |-> SoloProcs, maxViews |-> SoloViews,
   messages |-> MessageTypes \X Origins]
\* every theme kind, with the messages posted to the surfaces recorded
ThemeWorkload ==
  [themes |-> ThemeKinds, versions |-> {150}, files |-> {Str("/a")},
   chunks |-> {<<"http://u1", "">>}, remotes |-> {FALSE}, ops |-> Ops,
   watch |-> {"posts"},
   maxTasks |-> MaxTasks, maxWrites |-> MaxWrites, maxPending |-> MaxPending,
   maxProcs |-> MaxProcs, maxViews |-> MaxViews,
   messages |-> {<<"keydown", "http://u1">>}]

VARIABLES
  workload,             \* the workload of this run
  remoteName,           \* vscode.env.remoteName is set
  themeKind,            \* vscode.window.activeColorTheme.kind
  showTrace,            \* settingsModel.showTrace.get()
  embedTraceViewer,     \* settingsModel.embedTraceViewer.get()
  subscribed,           \* the settings subscriptions of _disposables are live
  traceViewerProcess,   \* _traceViewerProcess: 0 (undefined) or a process id
  embedded,             \* _embedded
  traceViewerUrl,       \* _traceViewerUrl: "" is undefined
  traceViewerView,      \* _traceViewerView: 0 (undefined) or a view id
  restart,              \* _restart
  currentFile,          \* _currentFile
  procs,                \* the ChildProcess objects that have not exited
  views,                \* the TraceViewerView objects that are not disposed
  tasks,                \* the suspended open()/willRunTests() calls
  pending,              \* stdout handlers suspended at asExternalUri
  shown,                \* the messages the last step surfaced to the user
  called,               \* the open() call the last step was, if it was one
  posted,               \* the messages the last step posted, per surface
  quiet,                \* no exit, close, error, dispose or settings toggle yet
  offClosed,            \* the show setting went off with a process held, and
                        \* no caller has made a request since
  emptyFrom,            \* the process whose stdout handler last returned at
                        \* an empty first line with no externalization
                        \* pending (0: none, or it has exited)
  requested             \* the artifact of the last open() call of a caller
                        \* that got to _startIfNeeded

env == <<workload, remoteName, themeKind>>
settings == <<showTrace, embedTraceViewer>>
ghosts == <<quiet, offClosed, emptyFrom, requested>>

vars == <<workload, remoteName, themeKind, posted, showTrace, embedTraceViewer, subscribed,
          traceViewerProcess, embedded, traceViewerUrl, traceViewerView, restart,
          currentFile, procs, views, tasks, pending, shown, called, quiet,
          offClosed, emptyFrom, requested>>

\* ------------------------------------------------------ pure functions

\* getPath(uriOrPath), with the string coercion of `getPath(file) + '\n'`
getPath(f) ==
  IF f.kind = "string" THEN f.path
  ELSE IF f.scheme = "file" THEN f.path
  ELSE f.scheme \o "://" \o f.path

\* JavaScript truthiness of `file`: '' and undefined are falsy, a Uri is truthy
Truthy(f) == f.kind = "uri" \/ (f.kind = "string" /\ f.path # "")

\* (mutant) _checkEmbeddedVersion accepting every version
checkEmbeddedVersionAny(v) == TRUE

\* _checkEmbeddedVersion(config)
checkEmbeddedVersion(v) == v >= kEmbeddedMinVersion

\* (mutant) _checkVersion accepting every version
checkVersionAny(v) == TRUE

\* the boolean _checkVersion(config) returns
checkVersion(v) == ~(v < kMinVersion)

\* showWarningMessage('Playwright v{0}+ is required ..., v{2} found')
WarningMessage(v) == [kind |-> "warning", required |-> kMinVersion, found |-> v]

\* showErrorMessage(error.message)
ErrorMessage == [kind |-> "error", required |-> 0, found |-> 0]

\* the messages a step surfaces, as a run that watches them records them
Surfaced(messages) == IF "messages" \in workload.watch THEN messages ELSE <<>>

\* the call a step was, recorded in the runs that record the messages
NoCall == [op |-> "none", version |-> 0]
Called(op, v) ==
  IF "messages" \in workload.watch
  THEN [op |-> op, version |-> v]
  ELSE NoCall

\* (mutant) the first line that is not empty
FirstLineNotEmpty(chunk) == IF chunk[1] = "" THEN chunk[2] ELSE chunk[1]

\* const [url] = data.toString().split('\n')
FirstLine(chunk) == chunk[1]

\* (await asExternalUri(Uri.parse(url))).toString(): the host rewrites the
\* authority when the extension runs remotely
asExternalUri(url) == IF remoteName THEN "ext+" \o url ELSE url \o "/"

\* `this._currentFile ?? ''`
FileOrEmpty(f) == IF f = Undefined THEN Str("") ELSE f

\* (mutant) allArgs with the binding flags in every remote launch
LaunchArgsAlwaysBinding(emb, remote) ==
  <<"cli", "show-trace", "--stdin">> \o
    (IF emb THEN <<"--server-only">> ELSE <<>>) \o
    (IF remote THEN <<"--host", "0.0.0.0", "--port", "0">> ELSE <<>>)

\* allArgs of _startIfNeeded
LaunchArgs(emb, remote) ==
  <<"cli", "show-trace", "--stdin">> \o
    (IF emb THEN <<"--server-only">>
     ELSE IF remote THEN <<"--host", "0.0.0.0", "--port", "0">>
     ELSE <<>>)

HasArg(args, a) == \E i \in 1..Len(args) : args[i] = a

\* (mutant) getThemeMode without the high-contrast kind
getThemeModeDarkOnly(kind) == IF kind = 2 THEN "dark-mode" ELSE "light-mode"

\* getThemeMode(vscode), of the theme kind
getThemeMode(kind) == IF kind = 2 \/ kind = 3 THEN "dark-mode" ELSE "light-mode"

\* new URL(url).origin, of the urls that asExternalUri returns
OriginOf(url) ==
  CASE url = "http://u1/" -> "http://u1"
    [] url = "http://u2/" -> "http://u2"
    [] OTHER -> "null"

\* (mutant) the relay without the re-dispatch of key events
relayNoKeys(type, origin, frameOrigin) ==
  IF origin = frameOrigin
  THEN <<[to |-> "host", type |-> type]>>
  ELSE <<[to |-> "frame", type |-> type]>>

\* the `message` listener of the page: what it sends where, for a message of
\* data.type `type` from `origin`, in a page written for frameOrigin
relay(type, origin, frameOrigin) ==
  IF origin = frameOrigin
  THEN IF type = "keyup" \/ type = "keydown"
       THEN <<[to |-> "keyboard", type |-> type]>>
       ELSE <<[to |-> "host", type |-> type]>>
  ELSE <<[to |-> "frame", type |-> type]>>

\* TraceViewerView.getHtml(url): the loading body without a url, else the frame
getHtml(url) ==
  IF url # "" THEN [body |-> "iframe", src |-> url, theme |-> getThemeMode(themeKind)]
  ELSE [body |-> "loading", src |-> "", theme |-> ""]

\* -------------------------------------------------------------- state

Idle == [pc |-> "idle", kind |-> "none", file |-> Undefined, version |-> 0,
         origin |-> "none"]

NewTask(kind, file, v, origin) ==
  [pc |-> "findNode", kind |-> kind, file |-> file, version |-> v,
   origin |-> origin]

\* a free process slot
NoProc == [alive |-> FALSE, killed |-> FALSE, stdinEnded |-> FALSE,
           stdin |-> <<>>, args |-> <<>>, version |-> 0]

\* spawn(node, allArgs, ...) with the config its handlers close over
NewProc(args, v) ==
  [alive |-> TRUE, killed |-> FALSE, stdinEnded |-> FALSE, stdin |-> <<>>,
   args |-> args, version |-> v]

\* a free surface slot
NoView == [disposed |-> TRUE, html |-> getHtml(""), version |-> 0]

\* new TraceViewerView(vscode, extensionUri, url), created for a config
NewView(url, v) == [disposed |-> FALSE, html |-> getHtml(url), version |-> v]

Pids == 1..workload.maxProcs
Vids == 1..workload.maxViews
Tids == 1..workload.maxTasks

\* the messages a step posts to the surfaces, recorded in the runs that watch
\* them: to the webview (webview.postMessage) or to its frame
NoPosts == [i \in Vids |-> <<>>]
Posted(msgs) == IF "posts" \in workload.watch THEN msgs ELSE NoPosts
ThemeMessage(to, mode) == [to |-> to, theme |-> mode]
Relayed(msgs) == IF "relays" \in workload.watch THEN msgs ELSE NoPosts

\* the state after the constructor, in a run of workload w
InitOf(w) ==
  /\ workload = w
  /\ remoteName \in workload.remotes
  /\ themeKind \in workload.themes
  /\ showTrace \in BOOLEAN
  /\ embedTraceViewer \in BOOLEAN
  /\ subscribed = TRUE
  /\ traceViewerProcess = 0
  /\ embedded = FALSE
  /\ traceViewerUrl = ""
  /\ traceViewerView = 0
  /\ restart = FALSE
  /\ currentFile = Undefined
  /\ procs = [p \in Pids |-> NoProc]
  /\ views = [i \in Vids |-> NoView]
  /\ tasks = [t \in Tids |-> Idle]
  /\ pending = <<>>
  /\ shown = <<>>
  /\ called = NoCall
  /\ posted = NoPosts
  /\ quiet = TRUE
  /\ offClosed = FALSE
  /\ emptyFrom = 0
  /\ requested = Undefined

\* ------------------------------------------------------------ helpers

\* no open() call is between the end of _startIfNeeded and its continuation
NoHop == \A t \in Tids : tasks[t].pc # "started"

Lowest(S) == CHOOSE x \in S : \A y \in S : x <= y

FreeTids == {t \in Tids : tasks[t].pc = "idle"}
FreePids == {p \in Pids : ~procs[p].alive}
FreeVids == {i \in Vids : views[i].disposed}
Alive == {p \in Pids : procs[p].alive}
Undisposed == {i \in Vids : ~views[i].disposed}

\* (mutant) the guard without its version test
WouldOpenViewUnversioned(slot, v) == ~(slot # 0 \/ ~embedTraceViewer)

\* (mutant) the guard without its test of the slot
WouldOpenViewUnguarded(slot, v) ==
  ~(~embedTraceViewer \/ ~checkEmbeddedVersion(v))

\* the guard of _maybeOpenEmbeddedTraceViewer(config) for a surface slot
WouldOpenView(slot, v) ==
  ~(slot # 0 \/ ~embedTraceViewer \/ ~checkEmbeddedVersion(v))

\* _maybeOpenEmbeddedTraceViewer(config) on the views and on the slot
ViewsAfterMaybeOpen(vs, slot, v) ==
  IF WouldOpenView(slot, v)
  THEN [vs EXCEPT ![Lowest(FreeVids)] = NewView(traceViewerUrl, v)]
  ELSE vs
SlotAfterMaybeOpen(slot, v) ==
  IF WouldOpenView(slot, v) THEN Lowest(FreeVids) ELSE slot

\* A process the orchestrator holds no more is referenced by nothing but its
\* own handlers: what was written to it and how it was launched is garbage.
Detached(proc) == [proc EXCEPT !.stdin = <<>>, !.args = <<>>]
ProcsAfterDetach(ps, h) ==
  IF h = 0 THEN ps ELSE [ps EXCEPT ![h] = Detached(@)]

\* (mutant) close() ending the input stream of every running process
ProcsAfterCloseAll(ps, h) ==
  [p \in DOMAIN ps |->
     IF ps[p].alive THEN Detached([ps[p] EXCEPT !.stdinEnded = TRUE]) ELSE ps[p]]

\* close(): stdin?.end() on the held process, and the handle is cleared
ProcsAfterClose(ps, h) ==
  IF h = 0 THEN ps
  ELSE [ps EXCEPT ![h] = Detached([@ EXCEPT !.stdinEnded = TRUE])]

\* kill() on the held process
ProcsAfterKill(ps, h) ==
  IF h = 0 THEN ps ELSE [ps EXCEPT ![h].killed = TRUE]

\* the last n elements of a sequence
Last(seq, n) == IF Len(seq) <= n THEN seq ELSE SubSeq(seq, Len(seq) - n + 1, Len(seq))

\* (mutant) the write without the newline
ProcsAfterWriteNoNewline(ps, h, f) ==
  IF h = 0 THEN ps
  ELSE [ps EXCEPT ![h].stdin = Last(Append(@, getPath(f)), workload.maxWrites)]

\* (mutant) the write skipped
ProcsAfterWriteSkipped(ps, h, f) == ps

\* stdin?.write(getPath(file) + '\n') on the held process; stdin keeps the
\* last maxWrites lines written
ProcsAfterWrite(ps, h, f) ==
  IF h = 0 THEN ps
  ELSE [ps EXCEPT ![h].stdin =
          Last(Append(@, getPath(f) \o "\n"), workload.maxWrites)]

\* TraceViewerView.dispose() on the surface in the slot
ViewsAfterDispose(vs, slot) ==
  IF slot = 0 THEN vs ELSE [vs EXCEPT ![slot] = NoView]

\* TraceViewerView.show(url) on the surface in the slot
ViewsAfterShow(vs, slot, url) ==
  IF slot = 0 THEN vs ELSE [vs EXCEPT ![slot].html = getHtml(url)]

\* (mutant) open() without its return for a missing artifact
OpenOutcomeNoFileStarts(file, v, h) ==
  IF ~showTrace THEN "off"
  ELSE IF ~checkVersion(v) THEN "warn"
  ELSE "start"

\* the synchronous part of open(file, config), up to `await findNode`, with
\* handle h: which return it takes, or that it starts
OpenOutcome(file, v, h) ==
  IF ~showTrace THEN "off"
  ELSE IF ~checkVersion(v) THEN "warn"
  ELSE IF ~Truthy(file) /\ h = 0 THEN "nofile"
  ELSE "start"

RemoveAt(seq, i) == SubSeq(seq, 1, i - 1) \o SubSeq(seq, i + 1, Len(seq))

\* ------------------------------------------------------------ actions

\* open(file, config) called by a caller: the part before `await findNode`
OpenCall(file, v) ==
  LET o == OpenOutcome(file, v, traceViewerProcess) IN
  /\ o = "start" => FreeTids # {}
  /\ shown' = Surfaced(IF o = "warn" THEN <<WarningMessage(v)>> ELSE <<>>)
  /\ called' = Called("open", v)
  /\ requested' = IF o = "start" /\ "requests" \in workload.watch THEN file
                  ELSE requested
  /\ emptyFrom' = emptyFrom
  /\ posted' = NoPosts
  /\ tasks' = IF o = "start"
               THEN [tasks EXCEPT ![Lowest(FreeTids)] = NewTask("open", file, v, "caller")]
               ELSE tasks
  /\ offClosed' = IF o = "off" THEN offClosed ELSE FALSE
  /\ UNCHANGED <<env, settings, subscribed, traceViewerProcess, embedded,
                 traceViewerUrl, traceViewerView, restart, currentFile, procs,
                 views, pending, quiet>>

\* willRunTests(config) called by a caller: the part before `await findNode`
WillRunTestsCall(v) ==
  /\ "willRunTests" \in workload.ops
  /\ showTrace => FreeTids # {}
  /\ tasks' = IF showTrace
               THEN [tasks EXCEPT ![Lowest(FreeTids)] =
                       NewTask("willRunTests", Undefined, v, "caller")]
               ELSE tasks
  /\ offClosed' = IF showTrace THEN FALSE ELSE offClosed
  /\ shown' = <<>>
  /\ called' = NoCall
  /\ requested' = requested
  /\ emptyFrom' = emptyFrom
  /\ posted' = NoPosts
  /\ UNCHANGED <<env, settings, subscribed, traceViewerProcess, embedded,
                 traceViewerUrl, traceViewerView, restart, currentFile, procs,
                 views, pending, quiet>>

\* (mutant) _startIfNeeded without its check of the handle
AlreadyRunningUnchecked == FALSE

\* `if (this._traceViewerProcess) return;` of _startIfNeeded
AlreadyRunning == traceViewerProcess # 0

\* the launch mode of _startIfNeeded(config)
LaunchEmbedded(v) == embedTraceViewer /\ checkEmbeddedVersion(v)

\* _startIfNeeded(config) after `await findNode`: return when a process is
\* held, else build the arguments, open the surface, spawn and record the mode
StartIfNeededResume(t) ==
  LET v == tasks[t].version
      emb == LaunchEmbedded(v)
      done == IF tasks[t].kind = "open" THEN [tasks[t] EXCEPT !.pc = "started"]
              ELSE Idle
  IN
  /\ tasks[t].pc = "findNode"
  /\ tasks' = [tasks EXCEPT ![t] = done]
  /\ IF AlreadyRunning
     THEN UNCHANGED <<traceViewerProcess, embedded, procs, views, traceViewerView>>
     ELSE /\ FreePids # {}
          /\ (emb /\ WouldOpenView(traceViewerView, v)) => FreeVids # {}
          /\ views' = IF emb THEN ViewsAfterMaybeOpen(views, traceViewerView, v)
                       ELSE views
          /\ traceViewerView' = IF emb THEN SlotAfterMaybeOpen(traceViewerView, v)
                                 ELSE traceViewerView
          /\ procs' = [procs EXCEPT ![Lowest(FreePids)] =
                         NewProc(LaunchArgs(emb, remoteName), v)]
          /\ traceViewerProcess' = Lowest(FreePids)
          /\ embedded' = emb
  /\ shown' = <<>>
  /\ called' = NoCall
  /\ posted' = NoPosts
  /\ UNCHANGED <<env, settings, subscribed, traceViewerUrl, restart, currentFile,
                 pending, ghosts>>

\* open(file, config) after `await this._startIfNeeded(config)`
OpenResume(t) ==
  LET f == tasks[t].file
      v == tasks[t].version
      h == traceViewerProcess
  IN
  /\ tasks[t].pc = "started"
  /\ WouldOpenView(traceViewerView, v) => FreeVids # {}
  /\ tasks' = [tasks EXCEPT ![t] = Idle]
  /\ currentFile' = f
  /\ procs' = ProcsAfterWrite(procs, h, f)
  /\ views' = ViewsAfterMaybeOpen(views, traceViewerView, v)
  /\ traceViewerView' = SlotAfterMaybeOpen(traceViewerView, v)
  /\ shown' = <<>>
  /\ called' = NoCall
  /\ posted' = NoPosts
  /\ UNCHANGED <<env, settings, subscribed, traceViewerProcess, embedded,
                 traceViewerUrl, restart, pending, ghosts>>

\* close() called by a caller
Close ==
  /\ "close" \in workload.ops
  /\ procs' = ProcsAfterClose(procs, traceViewerProcess)
  /\ traceViewerProcess' = 0
  /\ shown' = <<>>
  /\ called' = NoCall
  /\ requested' = requested
  /\ emptyFrom' = emptyFrom
  /\ posted' = NoPosts
  /\ quiet' = FALSE
  /\ UNCHANGED <<env, settings, subscribed, embedded, traceViewerUrl,
                 traceViewerView, restart, currentFile, views, tasks, pending,
                 offClosed>>

\* (mutant) dispose() that keeps the settings subscriptions
DisposeKeepsSubscriptions ==
  /\ "dispose" \in workload.ops
  /\ procs' = ProcsAfterClose(procs, traceViewerProcess)
  /\ traceViewerProcess' = 0
  /\ views' = [i \in Vids |-> NoView]
  /\ traceViewerView' = 0
  /\ shown' = <<>>
  /\ called' = NoCall
  /\ requested' = requested
  /\ emptyFrom' = emptyFrom
  /\ posted' = NoPosts
  /\ quiet' = FALSE
  /\ UNCHANGED <<env, settings, subscribed, embedded, traceViewerUrl, restart,
                 currentFile, tasks, pending, offClosed>>

\* dispose(): close(), then every disposable (the settings subscriptions and
\* the surfaces) is disposed; a surface's dispose clears the slot
Dispose ==
  /\ "dispose" \in workload.ops
  /\ procs' = ProcsAfterClose(procs, traceViewerProcess)
  /\ traceViewerProcess' = 0
  /\ subscribed' = FALSE
  /\ views' = [i \in Vids |-> NoView]
  /\ traceViewerView' = 0
  /\ shown' = <<>>
  /\ called' = NoCall
  /\ requested' = requested
  /\ emptyFrom' = emptyFrom
  /\ posted' = NoPosts
  /\ quiet' = FALSE
  /\ UNCHANGED <<env, settings, embedded, traceViewerUrl, restart, currentFile,
                 tasks, pending, offClosed>>

\* the showTrace setting is toggled; its onChange handler runs while subscribed
ShowTraceChange ==
  LET value == ~showTrace
      closes == subscribed /\ ~value /\ traceViewerProcess # 0
  IN
  /\ "showTrace" \in workload.ops
  /\ NoHop
  /\ showTrace' = value
  /\ procs' = IF closes THEN ProcsAfterClose(procs, traceViewerProcess) ELSE procs
  /\ traceViewerProcess' = IF closes THEN 0 ELSE traceViewerProcess
  /\ offClosed' = IF closes /\ "offClosed" \in workload.watch THEN TRUE ELSE offClosed
  /\ shown' = <<>>
  /\ called' = NoCall
  /\ requested' = requested
  /\ emptyFrom' = emptyFrom
  /\ posted' = NoPosts
  /\ quiet' = FALSE
  /\ UNCHANGED <<env, embedTraceViewer, subscribed, embedded, traceViewerUrl,
                 traceViewerView, restart, currentFile, views, tasks, pending>>

\* (mutant) the handler without its comparison with the recorded launch mode
EmbedHandlerActsAlways(value) == TRUE

\* `if (this._embedded !== value)` of the embedTraceViewer onChange handler
EmbedHandlerActs(value) == embedded # value

\* the embedTraceViewer setting is toggled; its onChange handler runs while
\* subscribed
EmbedTraceViewerChange ==
  LET value == ~embedTraceViewer
      acts == subscribed /\ EmbedHandlerActs(value)
  IN
  /\ "embedTraceViewer" \in workload.ops
  /\ NoHop
  /\ embedTraceViewer' = value
  /\ restart' = IF acts THEN traceViewerProcess # 0 ELSE restart
  /\ procs' = IF acts THEN ProcsAfterKill(procs, traceViewerProcess) ELSE procs
  /\ views' = IF acts THEN ViewsAfterDispose(views, traceViewerView) ELSE views
  /\ traceViewerView' = IF acts THEN 0 ELSE traceViewerView
  /\ shown' = <<>>
  /\ called' = NoCall
  /\ requested' = requested
  /\ emptyFrom' = emptyFrom
  /\ posted' = NoPosts
  /\ quiet' = FALSE
  /\ UNCHANGED <<env, showTrace, subscribed, traceViewerProcess, embedded,
                 traceViewerUrl, currentFile, tasks, pending, offClosed>>

\* (mutant) the exit handler restarting whatever the flag is
ExitRestartsAlways == TRUE

\* `if (this._restart)` of the exit handler
ExitRestarts == restart

\* process p reports exit: its exit handler clears the handle and the endpoint
\* and, with a restart pending, clears the flag and calls open() again
ProcessExit(p) ==
  LET f == FileOrEmpty(currentFile)
      v == procs[p].version
      o == IF ExitRestarts THEN OpenOutcome(f, v, 0) ELSE "none"
  IN
  /\ "exit" \in workload.ops
  /\ NoHop
  /\ procs[p].alive
  /\ o = "start" => FreeTids # {}
  /\ procs' = [ProcsAfterDetach(procs, traceViewerProcess) EXCEPT ![p] = NoProc]
  /\ pending' = [i \in 1..Len(pending) |->
                   IF pending[i].pid = p THEN [pending[i] EXCEPT !.pid = 0]
                   ELSE pending[i]]
  /\ traceViewerProcess' = 0
  /\ traceViewerUrl' = ""
  /\ restart' = FALSE
  /\ shown' = Surfaced(IF o = "warn" THEN <<WarningMessage(v)>> ELSE <<>>)
  /\ called' = NoCall
  /\ posted' = NoPosts
  /\ tasks' = IF o = "start"
               THEN [tasks EXCEPT ![Lowest(FreeTids)] = NewTask("open", f, v, "restart")]
               ELSE tasks
  /\ quiet' = FALSE
  /\ requested' = requested
  /\ emptyFrom' = IF emptyFrom = p THEN 0 ELSE emptyFrom
  /\ UNCHANGED <<env, settings, subscribed, embedded, traceViewerView,
                 currentFile, views, offClosed>>

\* (mutant) the error handler without its close()
ProcessErrorNoClose(p) ==
  /\ "error" \in workload.ops
  /\ NoHop
  /\ procs[p].alive
  /\ shown' = Surfaced(<<ErrorMessage>>)
  /\ called' = NoCall
  /\ requested' = requested
  /\ emptyFrom' = emptyFrom
  /\ posted' = NoPosts
  /\ quiet' = FALSE
  /\ UNCHANGED <<env, settings, subscribed, traceViewerProcess, embedded,
                 traceViewerUrl, traceViewerView, restart, currentFile, procs,
                 views, tasks, pending, offClosed>>

\* process p reports an error: the message is shown and close() runs
ProcessError(p) ==
  /\ "error" \in workload.ops
  /\ NoHop
  /\ procs[p].alive
  /\ shown' = Surfaced(<<ErrorMessage>>)
  /\ called' = NoCall
  /\ requested' = requested
  /\ emptyFrom' = emptyFrom
  /\ posted' = NoPosts
  /\ procs' = ProcsAfterClose(procs, traceViewerProcess)
  /\ traceViewerProcess' = 0
  /\ quiet' = FALSE
  /\ UNCHANGED <<env, settings, subscribed, embedded, traceViewerUrl,
                 traceViewerView, restart, currentFile, views, tasks, pending,
                 offClosed>>

\* process p writes a chunk to stdout: the handler up to `await asExternalUri`
StdoutData(p, chunk) ==
  LET url == FirstLine(chunk)
      parses == traceViewerUrl = "" /\ embedTraceViewer /\ url # ""
  IN
  /\ "stdout" \in workload.ops
  /\ NoHop
  /\ procs[p].alive
  /\ parses => Len(pending) < workload.maxPending
  /\ pending' = IF parses THEN Append(pending, [pid |-> p, url |-> url])
                 ELSE pending
  /\ requested' = requested
  /\ emptyFrom' = IF traceViewerUrl = "" /\ embedTraceViewer /\ url = ""
                     /\ pending = <<>> /\ "emptyLines" \in workload.watch
                  THEN p ELSE emptyFrom
  /\ shown' = <<>>
  /\ called' = NoCall
  /\ posted' = NoPosts
  /\ UNCHANGED <<env, settings, subscribed, traceViewerProcess, embedded,
                 traceViewerUrl, traceViewerView, restart, currentFile, procs,
                 views, tasks, quiet, offClosed>>

\* the stdout handler after `await asExternalUri`: the endpoint is recorded and
\* shown in the surface
AsExternalUriResume(i) ==
  LET url == asExternalUri(pending[i].url) IN
  /\ NoHop
  /\ i \in 1..Len(pending)
  /\ pending' = RemoveAt(pending, i)
  /\ traceViewerUrl' = url
  /\ views' = ViewsAfterShow(views, traceViewerView, url)
  /\ shown' = <<>>
  /\ called' = NoCall
  /\ posted' = NoPosts
  /\ UNCHANGED <<env, settings, subscribed, traceViewerProcess, embedded,
                 traceViewerView, restart, currentFile, procs, tasks, ghosts>>

\* (mutant) the host's close of the panel also closing the process
HostCloseViewClosesProcess(i) ==
  /\ "hostClose" \in workload.ops
  /\ NoHop
  /\ ~views[i].disposed
  /\ views' = [views EXCEPT ![i] = NoView]
  /\ traceViewerView' = 0
  /\ procs' = ProcsAfterClose(procs, traceViewerProcess)
  /\ traceViewerProcess' = 0
  /\ shown' = <<>>
  /\ called' = NoCall
  /\ posted' = NoPosts
  /\ UNCHANGED <<env, settings, subscribed, embedded, traceViewerUrl, restart,
                 currentFile, tasks, pending, ghosts>>

\* the host disposes the panel of surface i (the user closes it): the surface
\* disposes itself and its onDispose listener clears the slot
HostCloseView(i) ==
  /\ "hostClose" \in workload.ops
  /\ NoHop
  /\ ~views[i].disposed
  /\ views' = [views EXCEPT ![i] = NoView]
  /\ traceViewerView' = 0
  /\ shown' = <<>>
  /\ called' = NoCall
  /\ posted' = NoPosts
  /\ UNCHANGED <<env, settings, subscribed, traceViewerProcess, embedded,
                 traceViewerUrl, restart, currentFile, procs, tasks, pending,
                 ghosts>>

\* the host's active color theme becomes one of kind k
ThemeKindChange(k) ==
  /\ "theme" \in workload.ops
  /\ NoHop
  /\ themeKind' = k
  /\ shown' = <<>>
  /\ called' = NoCall
  /\ posted' = NoPosts
  /\ UNCHANGED <<workload, remoteName, settings, subscribed, traceViewerProcess,
                 embedded, traceViewerUrl, traceViewerView, restart, currentFile,
                 procs, views, tasks, pending, ghosts>>

\* the host signals a configuration change: the onDidChangeConfiguration
\* listener of every surface that is not disposed posts the theme mode when
\* the change affects workbench.colorTheme
ConfigurationChange(affectsColorTheme) ==
  /\ "configuration" \in workload.ops
  /\ NoHop
  /\ posted' = Posted([i \in Vids |->
                         IF ~views[i].disposed /\ affectsColorTheme
                         THEN <<ThemeMessage("webview", getThemeMode(themeKind))>>
                         ELSE <<>>])
  /\ shown' = <<>>
  /\ called' = NoCall
  /\ UNCHANGED <<env, settings, subscribed, traceViewerProcess, embedded,
                 traceViewerUrl, traceViewerView, restart, currentFile, procs,
                 views, tasks, pending, ghosts>>

\* the frame of surface i fires `load`: the script of the page posts the
\* theme mode written into the page to the frame
FrameLoad(i) ==
  /\ "frameLoad" \in workload.ops
  /\ NoHop
  /\ ~views[i].disposed
  /\ views[i].html.body = "iframe"
  /\ posted' = Posted([NoPosts EXCEPT ![i] =
                         <<ThemeMessage("frame", views[i].html.theme)>>])
  /\ shown' = <<>>
  /\ called' = NoCall
  /\ UNCHANGED <<env, settings, subscribed, traceViewerProcess, embedded,
                 traceViewerUrl, traceViewerView, restart, currentFile, procs,
                 views, tasks, pending, ghosts>>

\* a `message` event arrives at the window of the page of surface i, whose
\* frame is live: the listener of the page relays it
WindowMessage(i, type, origin) ==
  /\ "windowMessage" \in workload.ops
  /\ NoHop
  /\ ~views[i].disposed
  /\ views[i].html.body = "iframe"
  /\ posted' = Relayed([NoPosts EXCEPT ![i] =
                          relay(type, origin, OriginOf(views[i].html.src))])
  /\ shown' = <<>>
  /\ called' = NoCall
  /\ UNCHANGED <<env, settings, subscribed, traceViewerProcess, embedded,
                 traceViewerUrl, traceViewerView, restart, currentFile, procs,
                 views, tasks, pending, ghosts>>

Next ==
  \/ \E f \in workload.files, v \in workload.versions : OpenCall(f, v)
  \/ \E v \in workload.versions : WillRunTestsCall(v)
  \/ \E t \in Tids : StartIfNeededResume(t)
  \/ \E t \in Tids : OpenResume(t)
  \/ Close
  \/ Dispose
  \/ ShowTraceChange
  \/ EmbedTraceViewerChange
  \/ \E p \in Pids : ProcessExit(p)
  \/ \E p \in Pids : ProcessError(p)
  \/ \E p \in Pids, c \in workload.chunks : StdoutData(p, c)
  \/ \E i \in 1..Len(pending) : AsExternalUriResume(i)
  \/ \E i \in Vids : HostCloseView(i)
  \/ \E k \in workload.themes : ThemeKindChange(k)
  \/ \E a \in BOOLEAN : ConfigurationChange(a)
  \/ \E i \in Vids : FrameLoad(i)
  \/ \E i \in Vids, m \in workload.messages : WindowMessage(i, m[1], m[2])

Init == InitOf(MainWorkload)
InitBurst == InitOf(BurstWorkload)
InitFiles == InitOf(FilesWorkload)
InitMessages == InitOf(MessagesWorkload)
InitShowOff == InitOf(ShowOffWorkload)
InitTheme == InitOf(ThemeWorkload)
InitNoFile == InitOf(NoFileWorkload)
InitEmptyLine == InitOf(EmptyLineWorkload)
InitOutput == InitOf(OutputWorkload)
InitLaunch == InitOf(LaunchWorkload)
InitReplay == InitOf(ReplayWorkload)
InitRelay == InitOf(RelayWorkload)

Spec == Init /\ [][Next]_vars
SpecBurst == InitBurst /\ [][Next]_vars
SpecFiles == InitFiles /\ [][Next]_vars
SpecMessages == InitMessages /\ [][Next]_vars
SpecShowOff == InitShowOff /\ [][Next]_vars
SpecTheme == InitTheme /\ [][Next]_vars
SpecNoFile == InitNoFile /\ [][Next]_vars
SpecEmptyLine == InitEmptyLine /\ [][Next]_vars
SpecOutput == InitOutput /\ [][Next]_vars
SpecLaunch == InitLaunch /\ [][Next]_vars
SpecReplay == InitReplay /\ [][Next]_vars
SpecRelay == InitRelay /\ [][Next]_vars

\* ------------------------------------------------------------- claims

\* C1: in every reachable state at most one spawned process has not yet
\* exited, and a spawn happens only in a state where no spawned process is
\* still alive.
C1_AtMostOneLiveProcess ==
  [][/\ Cardinality(Alive) <= 1
     /\ (\E p \in Pids : ~procs[p].alive /\ procs'[p].alive) => Alive = {}]_vars

\* C2: as long as no exit, close, error, dispose or settings toggle has
\* happened, the open() and willRunTests() calls made so far, suspended or
\* finished, have spawned at most one process, and exactly one (the held one)
\* once any call has got past _startIfNeeded.
C2_ExactlyOneSpawn ==
  quiet =>
    /\ Cardinality(Alive) <= 1
    /\ ((\E t \in Tids : tasks[t].pc = "started") \/ currentFile # Undefined)
         => (Cardinality(Alive) = 1 /\ traceViewerProcess \in Alive)

\* two calls were suspended together, both are past _startIfNeeded, one process
C2_Witness ==
  /\ quiet
  /\ Cardinality(Tids) >= 2
  /\ \A t \in Tids : tasks[t].pc = "started"
  /\ Cardinality(Alive) = 1

\* ---- steps, as the formulas below recognise them

\* process slot p holds a new process after the step
Spawned(p) == ~procs[p].alive /\ procs'[p].alive
\* process p reports exit in the step
Exited(p) == procs[p].alive /\ ~procs'[p].alive
\* the suspended call t gets past `await findNode` in the step
StartStep(t) == tasks[t].pc = "findNode" /\ tasks'[t].pc # "findNode"
\* the suspended open() call t runs its continuation in the step
WriteStep(t) == tasks[t].pc = "started" /\ tasks'[t].pc # "started"
\* the calls of the exit handler that are suspended at findNode
RestartTasks == {t \in Tids : tasks[t].origin = "restart" /\ tasks[t].pc = "findNode"}
\* the step suspends a new call of the exit handler, for file f and version v
RestartCalled(f, v) ==
  \E t \in Tids : /\ tasks[t].pc = "idle"
                  /\ tasks' = [tasks EXCEPT ![t] = NewTask("open", f, v, "restart")]

\* C3 (as stated): a toggle of the embedding setting with a process held kills
\* the process and disposes the surface; the exit of a killed process calls
\* open() again; that call spawns a process in the opposite mode and writes the
\* last requested artifact to it.
C3_ToggleAlwaysRestarts ==
  [][/\ (embedTraceViewer' # embedTraceViewer /\ traceViewerProcess # 0)
          => /\ procs'[traceViewerProcess].killed
             /\ traceViewerView' = 0
     /\ \A p \in Pids : (Exited(p) /\ procs[p].killed)
          => \E f \in workload.files, v \in workload.versions : RestartCalled(f, v)
     /\ \A t \in Tids : (StartStep(t) /\ tasks[t].origin = "restart")
          => /\ \E p \in Pids : Spawned(p)
             /\ embedded' # embedded
     /\ \A t \in Tids : (WriteStep(t) /\ tasks[t].origin = "restart")
          => /\ traceViewerProcess # 0
             /\ procs'[traceViewerProcess].stdin # <<>>]_vars

\* C3 (amended): a toggle of the embedding setting acts only while the
\* orchestrator is subscribed and the new value differs from the recorded
\* launch mode; it then kills the held process (keeping the handle), disposes
\* the surface and sets the restart flag iff a process is held.  An exit with
\* the flag set clears it and calls open() with the remembered artifact and
\* the exiting process's version, which suspends only with the show setting
\* on, a version of at least 1.35 and a non-empty remembered artifact.  That
\* call spawns iff no process is held when it resumes, in the mode
\* `setting /\ version >= 1.45`, and then writes the artifact's path and a
\* newline to the held process.
C3_RestartAfterToggle ==
  [][/\ (embedTraceViewer' # embedTraceViewer)
          => IF subscribed /\ embedded # embedTraceViewer'
             THEN /\ restart' = (traceViewerProcess # 0)
                  /\ traceViewerProcess' = traceViewerProcess
                  /\ traceViewerProcess # 0
                       => procs' = [procs EXCEPT ![traceViewerProcess].killed = TRUE]
                  /\ traceViewerView' = 0
                  /\ Undisposed' = Undisposed \ {traceViewerView}
                  /\ tasks' = tasks
             ELSE UNCHANGED <<restart, procs, views, traceViewerView, tasks>>
     /\ \A p \in Pids : (Exited(p) /\ restart)
          => /\ restart' = FALSE
             /\ traceViewerProcess' = 0
             /\ \A q \in Pids : ~Spawned(q)
             /\ IF /\ showTrace
                   /\ procs[p].version >= kMinVersion
                   /\ currentFile # Undefined
                   /\ getPath(currentFile) # ""
                THEN RestartCalled(currentFile, procs[p].version)
                ELSE tasks' = tasks
     /\ \A t \in Tids : (StartStep(t) /\ tasks[t].origin = "restart")
          => IF traceViewerProcess = 0
             THEN /\ traceViewerProcess' \in Pids
                  /\ Spawned(traceViewerProcess')
                  /\ Alive' = Alive \cup {traceViewerProcess'}
                  /\ embedded' = (embedTraceViewer
                                    /\ tasks[t].version >= kEmbeddedMinVersion)
                  /\ HasArg(procs'[traceViewerProcess'].args, "--server-only")
                       = embedded'
             ELSE UNCHANGED <<traceViewerProcess, procs, embedded>>
     /\ \A t \in Tids : (WriteStep(t) /\ tasks[t].origin = "restart")
          => /\ currentFile' = tasks[t].file
             /\ traceViewerProcess' = traceViewerProcess
             /\ Alive' = Alive
             /\ traceViewerProcess # 0
                  => LET written == procs'[traceViewerProcess].stdin IN
                     /\ written # <<>>
                     /\ written[Len(written)] = getPath(tasks[t].file) \o "\n"]_vars

\* the exit handler's call has started a process in embedded mode for the
\* remembered artifact and is about to write it
C3_Witness ==
  \E t \in Tids :
    /\ tasks[t].origin = "restart"
    /\ tasks[t].pc = "started"
    /\ tasks[t].file = currentFile
    /\ traceViewerProcess \in Alive
    /\ ~procs[traceViewerProcess].killed
    /\ procs[traceViewerProcess].stdin = <<>>
    /\ embedded
    /\ HasArg(procs[traceViewerProcess].args, "--server-only")

\* C4 (as stated): an open() call with a version below 1.35 surfaces exactly
\* one warning and starts nothing, whatever the settings are.
C4_AlwaysOneWarning ==
  [][(called'.op = "open" /\ called'.version < kMinVersion)
       => /\ shown' = <<WarningMessage(called'.version)>>
          /\ UNCHANGED <<tasks, procs, traceViewerProcess>>]_vars

\* C4 (amended): an open() call with a version below 1.35 surfaces exactly one
\* warning when the show setting is on and none when it is off, and in both
\* cases it starts nothing: it suspends no call and spawns no process.
C4_OneWarningWhenShown ==
  [][(called'.op = "open" /\ called'.version < kMinVersion)
       => /\ shown' = IF showTrace THEN <<WarningMessage(called'.version)>>
                      ELSE <<>>
          /\ UNCHANGED <<tasks, procs, traceViewerProcess, views>>]_vars

\* open() with a version below 1.35 has just warned, next to a running process
C4_Witness ==
  /\ called.op = "open"
  /\ called.version < kMinVersion
  /\ showTrace
  /\ Len(shown) = 1
  /\ traceViewerProcess \in Alive

\* C5: a process spawned for a version in [1.35, 1.45) has no --server-only
\* argument and the recorded launch mode is non-embedded, whatever the
\* embedding setting is.
C5_StandaloneBelowEmbeddedMin ==
  [][\A p \in Pids :
       (/\ Spawned(p)
        /\ procs'[p].version >= kMinVersion
        /\ procs'[p].version < kEmbeddedMinVersion)
         => /\ ~HasArg(procs'[p].args, "--server-only")
            /\ HasArg(procs'[p].args, "--stdin")
            /\ traceViewerProcess' = p
            /\ ~embedded']_vars

\* a process of version 1.40 is held while the embedding setting is on
C5_Witness ==
  /\ embedTraceViewer
  /\ traceViewerProcess \in Alive
  /\ procs[traceViewerProcess].version >= kMinVersion
  /\ procs[traceViewerProcess].version < kEmbeddedMinVersion
  /\ ~HasArg(procs[traceViewerProcess].args, "--server-only")
  /\ currentFile # Undefined

\* C6: a surface is created only for a configuration of version 1.45 or more:
\* no step creates a surface for a lower version, so a run whose requests all
\* have lower versions never has a surface.
C6_NoSurfaceBelowEmbeddedMin ==
  [][/\ \A i \in Vids :
          (views[i].disposed /\ ~views'[i].disposed)
            => views'[i].version >= kEmbeddedMinVersion
     /\ \A i \in Undisposed' : views'[i].version >= kEmbeddedMinVersion]_vars

\* open() has written to a process of a version below 1.45 with the embedding
\* setting on, the process has written to stdout, and there is no surface
C6_Witness ==
  /\ embedTraceViewer
  /\ traceViewerProcess \in Alive
  /\ procs[traceViewerProcess].version < kEmbeddedMinVersion
  /\ procs[traceViewerProcess].stdin # <<>>
  /\ currentFile # Undefined
  /\ traceViewerView = 0
  /\ Undisposed = {}

\* C7: when the show setting goes off with a process held, the process's
\* input stream is ended and the handle is cleared, and from then on no
\* process is spawned until a caller makes a request with the setting on,
\* also when a restart was pending at the toggle.
C7_NoReplacementAfterShowOff ==
  [][/\ (subscribed /\ showTrace /\ ~showTrace' /\ traceViewerProcess # 0)
          => /\ procs'[traceViewerProcess].stdinEnded
             /\ traceViewerProcess' = 0
     /\ offClosed => \A p \in Pids : ~Spawned(p)]_vars

\* C8: a surface shows the loading placeholder as long as no endpoint is
\* recorded, a surface created at a launch starts with the placeholder, and a
\* live frame points at the recorded endpoint.
C8_LoadingUntilEndpoint ==
  [][/\ (traceViewerView' # 0 /\ traceViewerUrl' = "")
          => views'[traceViewerView'].html.body = "loading"
     /\ (traceViewerView' # 0 /\ views'[traceViewerView'].html.body = "iframe")
          => views'[traceViewerView'].html.src = traceViewerUrl'
     /\ \A p \in Pids, i \in Vids :
          (Spawned(p) /\ views[i].disposed /\ ~views'[i].disposed)
            => views'[i].html.body = "loading"]_vars

\* C9: an open() call that finds a process held when it gets past
\* `await findNode` and when it continues spawns and kills nothing, appends
\* the artifact's path and a newline to the end of the process's input stream
\* and, with a surface in the slot, creates no surface; there is never a
\* surface outside the slot.
C9_SequentialWrites ==
  [][/\ \A t \in Tids :
          (StartStep(t) /\ tasks[t].kind = "open" /\ traceViewerProcess # 0)
            => UNCHANGED <<procs, traceViewerProcess, views, traceViewerView,
                           currentFile>>
     /\ \A t \in Tids :
          (WriteStep(t) /\ traceViewerProcess # 0)
            => /\ procs' = [procs EXCEPT ![traceViewerProcess].stdin =
                              Last(Append(@, getPath(tasks[t].file) \o "\n"),
                                   workload.maxWrites)]
               /\ traceViewerProcess' = traceViewerProcess
               /\ currentFile' = tasks[t].file
               /\ traceViewerView # 0 => views' = views
     /\ Undisposed' \subseteq {traceViewerView'}]_vars

\* two open() calls, one after the other, have written '/a' and then a file
\* Uri's path to the process that the first one started
C9_Witness ==
  /\ traceViewerProcess \in Alive
  /\ Alive = {traceViewerProcess}
  /\ procs[traceViewerProcess].stdin = <<"/a\n", "/b\n">>
  /\ ~procs[traceViewerProcess].killed
  /\ currentFile = UriOf("file", "/b")
  /\ \A t \in Tids : tasks[t].pc = "idle"

\* the restart intents that are still to be consumed: the flag, and the calls
\* of the exit handler that have not yet got past `await findNode`
RestartIntents == (IF restart THEN 1 ELSE 0) + Cardinality(RestartTasks)

\* C10: an exit leaves the restart flag false and adds no restart intent; an
\* exit with the flag false suspends no call and spawns nothing; only a toggle
\* of the embedding setting adds an intent, and one at most; a call of the
\* exit handler that spawns consumes one.
C10_RestartConsumedOnce ==
  [][/\ \A p \in Pids : Exited(p)
          => /\ ~restart'
             /\ RestartIntents' <= RestartIntents
             /\ \A q \in Pids : ~Spawned(q)
             /\ ~restart => tasks' = tasks
     /\ RestartIntents' > RestartIntents
          => /\ embedTraceViewer' # embedTraceViewer
             /\ RestartIntents' = RestartIntents + 1
             /\ restart' /\ ~restart
     /\ \A t \in Tids : (StartStep(t) /\ tasks[t].origin = "restart")
          => RestartIntents' = RestartIntents - 1
     /\ \A t \in Tids : (tasks'[t].origin = "restart" /\ tasks[t].origin # "restart")
          => restart /\ \E p \in Pids : Exited(p)]_vars

\* an exit has consumed the restart intent: the flag is false, the exit
\* handler's call is suspended and nothing is running
C10_Witness ==
  /\ ~restart
  /\ Cardinality(RestartTasks) = 1
  /\ traceViewerProcess = 0
  /\ Alive = {}

\* C11: no process is started for a configuration whose version is below
\* 1.35, neither by open(), nor by willRunTests(), nor by the exit handler's
\* restart: every spawn is for a version of at least 1.35.
C11_NoProcessBelowMinVersion ==
  [][\A p \in Pids : Spawned(p) => procs'[p].version >= kMinVersion]_vars

\* C12: close() with a process held ends that process's input stream and
\* clears the handle, leaving every other process and field alone; close()
\* with no process held (as after a first close()) changes nothing and ends
\* no stream.
C12_CloseIdempotent ==
  [][Close =>
       /\ traceViewerProcess' = 0
       /\ UNCHANGED <<settings, subscribed, embedded, traceViewerUrl,
                      traceViewerView, restart, currentFile, views, tasks,
                      pending>>
       /\ IF traceViewerProcess # 0
          THEN /\ procs'[traceViewerProcess].stdinEnded
               /\ procs'[traceViewerProcess].alive
               /\ \A p \in Pids \ {traceViewerProcess} : procs'[p] = procs[p]
          ELSE procs' = procs]_vars

\* close() has ended the input stream of the process that open() wrote to;
\* the process has not exited and nothing is held, so another close() finds
\* no handle
C12_Witness ==
  /\ traceViewerProcess = 0
  /\ subscribed /\ showTrace
  /\ currentFile # Undefined
  /\ \E p \in Alive : procs[p].stdinEnded /\ ~procs[p].killed
  /\ \A t \in Tids : tasks[t].pc = "idle"

\* C13: dispose() ends the input stream of the held process, clears the
\* handle, disposes every surface and releases the settings subscriptions;
\* from then on a change of the show or of the embedding setting kills,
\* closes and disposes nothing.
C13_DisposeReleases ==
  [][/\ Dispose
          => /\ traceViewerProcess' = 0
             /\ traceViewerProcess # 0 => procs'[traceViewerProcess].stdinEnded
             /\ traceViewerView' = 0
             /\ Undisposed' = {}
             /\ ~subscribed'
     /\ ~subscribed => ~subscribed'
     /\ (~subscribed /\ settings' # settings)
          => UNCHANGED <<procs, views, traceViewerProcess, traceViewerView,
                         restart, traceViewerUrl, tasks, currentFile>>]_vars

\* after dispose() a call has spawned an embedded process with its surface,
\* and the embedding setting has gone off without killing or disposing them
C13_Witness ==
  /\ ~subscribed
  /\ embedded
  /\ ~embedTraceViewer
  /\ traceViewerProcess \in Alive
  /\ ~procs[traceViewerProcess].killed
  /\ ~procs[traceViewerProcess].stdinEnded
  /\ traceViewerView # 0

\* C14: an error event of the held process surfaces exactly one error
\* message, ends that process's input stream and clears the handle; the step
\* spawns nothing, suspends no call and leaves the restart flag alone.
C14_ErrorCloses ==
  [][\A p \in Pids :
       (ProcessError(p) /\ p = traceViewerProcess)
         => /\ shown' = <<ErrorMessage>>
            /\ procs'[p].stdinEnded
            /\ traceViewerProcess' = 0
            /\ Alive' = Alive
            /\ UNCHANGED <<tasks, restart, views, traceViewerView>>]_vars

\* the error message has just been shown, nothing is held, and the process
\* that open() wrote to has its input stream ended
C14_Witness ==
  /\ shown = <<ErrorMessage>>
  /\ traceViewerProcess = 0
  /\ currentFile # Undefined
  /\ Cardinality(Alive) = 1
  /\ \A p \in Alive : procs[p].stdinEnded /\ ~procs[p].killed

\* C15: the theme mode is dark-mode exactly for the kinds 2 and 3; a
\* configuration change that affects the color theme posts, to every surface
\* that exists, one theme message with the mode of the theme kind at that
\* moment, and to no other; a frame that loads is posted one theme message,
\* with the mode its page was written with.
C15_ThemeMessages ==
  [][/\ \A k \in ThemeKinds :
          (getThemeMode(k) = "dark-mode") = (k \in {2, 3})
     /\ \A k \in ThemeKinds : getThemeMode(k) \in {"dark-mode", "light-mode"}
     /\ ConfigurationChange(TRUE)
          => \A i \in Vids :
               posted'[i] = IF i \in Undisposed
                            THEN <<[to |-> "webview",
                                    theme |-> IF themeKind \in {2, 3}
                                              THEN "dark-mode" ELSE "light-mode"]>>
                            ELSE <<>>
     /\ \A i \in Vids :
          FrameLoad(i)
            => /\ Len(posted'[i]) = 1
               /\ posted'[i][1].to = "frame"
               /\ posted'[i][1].theme \in {"dark-mode", "light-mode"}
               /\ posted'[i][1].theme = views[i].html.theme
     /\ \A i \in Vids :
          views[i].html.body = "iframe"
            => views[i].html.theme \in {"dark-mode", "light-mode"}]_vars

\* a light theme is active and its mode has just been posted to a surface
\* whose live frame was written under a dark theme
C15_Witness ==
  /\ traceViewerView # 0
  /\ views[traceViewerView].html.body = "iframe"
  /\ views[traceViewerView].html.theme = "dark-mode"
  /\ themeKind = 4
  /\ posted[traceViewerView] = <<ThemeMessage("webview", "light-mode")>>

\* C16: an open() call made with the show setting off, or with a version
\* below 1.35, or with an empty artifact while no process is held, spawns
\* nothing, writes nothing, creates no surface, suspends no call and leaves
\* the remembered artifact and every other field unchanged.
C16_OpenFrame ==
  [][\A f \in workload.files, v \in workload.versions :
       (/\ OpenCall(f, v)
        /\ \/ ~showTrace
           \/ v < kMinVersion
           \/ (f = Str("") /\ traceViewerProcess = 0))
         => UNCHANGED <<settings, subscribed, traceViewerProcess, embedded,
                        traceViewerUrl, traceViewerView, restart, currentFile,
                        procs, views, tasks, pending>>]_vars

\* open('') has just returned with the show setting on, a supported version
\* and no process held: no call is suspended and nothing runs
C16_Witness ==
  /\ called.op = "open"
  /\ called.version >= kMinVersion
  /\ showTrace
  /\ shown = <<>>
  /\ traceViewerProcess = 0
  /\ Alive = {}
  /\ \A t \in Tids : tasks[t].pc = "idle"

\* C17: the arguments of every spawn contain --stdin; they contain
\* --server-only exactly when the embedding setting is on and the version is
\* at least 1.45; they contain --host 0.0.0.0 --port 0 exactly when they do
\* not contain --server-only and the context is remote; and the recorded
\* launch mode equals the presence of --server-only.
C17_LaunchArguments ==
  [][\A p \in Pids :
       Spawned(p) =>
         LET args == procs'[p].args
             serverOnly == HasArg(args, "--server-only")
             binding == \E i \in 1..(Len(args) - 3) :
                          SubSeq(args, i, i + 3) = <<"--host", "0.0.0.0", "--port", "0">>
         IN
         /\ HasArg(args, "--stdin")
         /\ serverOnly = (embedTraceViewer /\ procs'[p].version >= kEmbeddedMinVersion)
         /\ binding = (~serverOnly /\ remoteName)
         /\ HasArg(args, "--host") = binding
         /\ HasArg(args, "--port") = binding
         /\ embedded' = serverOnly
         /\ traceViewerProcess' = p]_vars

\* in a remote context, with the embedding setting on, a process of a version
\* below 1.45 is held: it was launched standalone with the binding flags
C17_Witness ==
  /\ remoteName
  /\ embedTraceViewer
  /\ traceViewerProcess \in Alive
  /\ procs[traceViewerProcess].version < kEmbeddedMinVersion
  /\ HasArg(procs[traceViewerProcess].args, "--host")
  /\ ~HasArg(procs[traceViewerProcess].args, "--server-only")
  /\ ~embedded

\* C18: a recorded endpoint is not replaced by another one (it is only
\* cleared), and a surface that shows a live frame keeps that frame until it
\* is disposed, also when a chunk arrives while asExternalUri of an earlier
\* one is pending.
C18_EndpointSetOnce ==
  [][/\ (traceViewerUrl # "" /\ traceViewerUrl' # "")
          => traceViewerUrl' = traceViewerUrl
     /\ \A i \in Vids :
          (~views[i].disposed /\ ~views'[i].disposed
             /\ views[i].html.body = "iframe")
            => views'[i].html = views[i].html]_vars

\* C19: output of a held process whose recorded launch mode is standalone is
\* never recorded as the endpoint: its stdout handler does not start the
\* externalization of a line, and no externalization started for it records
\* an endpoint or shows it.
C19_NoEndpointForStandalone ==
  [][/\ \A p \in Pids, c \in workload.chunks :
          (StdoutData(p, c) /\ p = traceViewerProcess /\ ~embedded)
            => pending' = pending
     /\ \A i \in 1..Len(pending) :
          (/\ AsExternalUriResume(i)
           /\ traceViewerProcess # 0
           /\ pending[i].pid = traceViewerProcess
           /\ ~embedded)
            => UNCHANGED <<traceViewerUrl, views>>]_vars

\* C20: a chunk whose first line is empty changes nothing: the endpoint, the
\* surfaces, the handle, the processes and the pending externalizations stay
\* as they are; and a later chunk of that process with a non-empty first line
\* is externalized, while no endpoint is recorded and the setting is on.
C20_EmptyFirstLineIgnored ==
  [][/\ \A p \in Pids, c \in workload.chunks :
          (StdoutData(p, c) /\ c[1] = "")
            => UNCHANGED <<traceViewerUrl, views, traceViewerView,
                           traceViewerProcess, procs, pending, tasks, restart,
                           currentFile, embedded>>
     /\ \A p \in Pids, c \in workload.chunks :
          (/\ StdoutData(p, c)
           /\ c[1] # ""
           /\ emptyFrom = p
           /\ traceViewerUrl = ""
           /\ embedTraceViewer)
            => pending' = Append(pending, [pid |-> p, url |-> c[1]])]_vars

\* the held process wrote a chunk with an empty first line while nothing was
\* recorded or pending, and the endpoint of a later chunk is now shown
C20_Witness ==
  /\ emptyFrom # 0
  /\ emptyFrom = traceViewerProcess
  /\ Alive = {traceViewerProcess}
  /\ traceViewerUrl # ""
  /\ traceViewerView # 0
  /\ views[traceViewerView].html.body = "iframe"
  /\ pending = <<>>

\* C21: after the handler of the embedding setting has run for a change that
\* turns the setting off, no surface exists: the slot is empty and every
\* surface is disposed.
C21_NoSurfaceAfterEmbedOff ==
  [][(subscribed /\ embedTraceViewer /\ ~embedTraceViewer')
       => /\ traceViewerView' = 0
          /\ Undisposed' = {}]_vars

\* C22: when the host closes the panel of a surface, the slot becomes empty
\* and the surface is disposed, while the handle, the endpoint, the restart
\* flag, the remembered artifact and the processes stay as they are; an open()
\* call that then continues with a process held, the embedding setting on and
\* a version of at least 1.45 creates a surface in the slot, live on the
\* recorded endpoint when one is recorded, and neither call step spawns.
C22_HostCloseKeepsProcess ==
  [][/\ \A i \in Vids :
          HostCloseView(i)
            => /\ traceViewerView' = 0
               /\ Undisposed' = Undisposed \ {i}
               /\ UNCHANGED <<traceViewerProcess, traceViewerUrl, restart,
                              currentFile, procs, embedded, tasks, pending>>
     /\ \A t \in Tids :
          (StartStep(t) /\ traceViewerProcess # 0)
            => UNCHANGED <<procs, traceViewerProcess, views, traceViewerView>>
     /\ \A t \in Tids :
          (/\ WriteStep(t)
           /\ traceViewerView = 0
           /\ traceViewerProcess # 0
           /\ embedTraceViewer
           /\ tasks[t].version >= kEmbeddedMinVersion)
            => /\ traceViewerView' \in Undisposed'
               /\ Undisposed' = {traceViewerView'}
               /\ traceViewerUrl # ""
                    => /\ views'[traceViewerView'].html.body = "iframe"
                       /\ views'[traceViewerView'].html.src = traceViewerUrl
               /\ traceViewerProcess' = traceViewerProcess
               /\ Alive' = Alive]_vars

\* the host has closed the surface of the held embedded process, whose
\* endpoint is recorded, and an open() call is about to continue
C22_Witness ==
  /\ subscribed
  /\ embedded /\ embedTraceViewer
  /\ traceViewerProcess \in Alive
  /\ ~procs[traceViewerProcess].killed
  /\ ~procs[traceViewerProcess].stdinEnded
  /\ traceViewerUrl # ""
  /\ traceViewerView = 0
  /\ Undisposed = {}
  /\ \E t \in Tids : tasks[t].pc = "started" /\ tasks[t].version >= kEmbeddedMinVersion

\* C23: at most one surface is not disposed, and it is the one in the slot; a
\* step that creates a surface starts with no surface and an empty slot, and
\* puts the new surface in the slot; an open() call that continues with a
\* surface in the slot leaves the surfaces as they are.
C23_AtMostOneSurface ==
  [][/\ Cardinality(Undisposed') <= 1
     /\ Undisposed' \subseteq {traceViewerView'}
     /\ \A i \in Vids :
          (views[i].disposed /\ ~views'[i].disposed)
            => /\ Undisposed = {}
               /\ traceViewerView = 0
               /\ traceViewerView' = i
     /\ \A t \in Tids :
          ((StartStep(t) \/ WriteStep(t)) /\ traceViewerView # 0)
            => UNCHANGED <<views, traceViewerView>>]_vars

\* two open() calls have written to the embedded process one after the other,
\* each finding the surface that the launch created in the slot
C23_Witness ==
  /\ embedded /\ embedTraceViewer
  /\ traceViewerProcess \in Alive
  /\ Len(procs[traceViewerProcess].stdin) = 2
  /\ Undisposed = {traceViewerView}
  /\ \A t \in Tids : tasks[t].pc = "idle"

\* C24 (as stated): every open() call that has passed the gates with a
\* non-empty artifact writes the artifact's path to the input stream of a
\* process when it continues, also in a burst of calls.
C24_EveryAcceptedCallWrites ==
  [][\A t \in Tids :
       (WriteStep(t) /\ Truthy(tasks[t].file))
         => /\ traceViewerProcess \in Alive
            /\ procs'[traceViewerProcess].stdin # <<>>]_vars

\* C24 (amended): when an open() call gets past _startIfNeeded, a process
\* that has been spawned and has not exited is held; the call's continuation
\* writes the artifact's path and a newline to the process held at that
\* moment, which has been spawned and has not exited, and writes nothing when
\* none is held; between the two steps only close() and dispose() clear the
\* handle.  This holds for each call of a burst.
C24_WritesToHeldProcess ==
  [][/\ \A t \in Tids :
          StartStep(t) => traceViewerProcess' \in Alive'
     /\ \A t \in Tids :
          WriteStep(t)
            => IF traceViewerProcess # 0
               THEN /\ traceViewerProcess \in Alive
                    /\ procs' = [procs EXCEPT ![traceViewerProcess].stdin =
                                   Last(Append(@, getPath(tasks[t].file) \o "\n"),
                                        workload.maxWrites)]
               ELSE procs' = procs
     /\ (/\ \E t \in Tids : tasks[t].pc = "started" /\ tasks'[t].pc = "started"
         /\ traceViewerProcess # 0
         /\ traceViewerProcess' = 0)
          => (Close \/ Dispose)]_vars

\* two calls were suspended together and both are past _startIfNeeded: the
\* first has written to the process, the second is about to
C24_Witness ==
  /\ quiet
  /\ Cardinality(Tids) >= 2
  /\ tasks[1].pc = "idle"
  /\ tasks[2].pc = "started"
  /\ traceViewerProcess \in Alive
  /\ procs[traceViewerProcess].stdin = <<"/a\n">>
  /\ currentFile = Str("/a")

\* C25: when a process exits with a restart pending, the artifact that the
\* exit handler passes to open() for the new process is the one of the most
\* recent open() call of a caller that passed the gates, also when that call
\* was made between the kill of the old process and its exit.
C25_ReplayIsLastRequest ==
  [][\A p \in Pids :
       (Exited(p) /\ restart)
         => \A f \in workload.files :
              RestartCalled(f, procs[p].version) => f = requested]_vars

\* C26: the page of a surface relays every message that arrives at its window
\* to exactly one destination: a keyup or keydown message from the origin of
\* the endpoint is dispatched as a keyboard event, any other message from
\* that origin is posted to the host, and a message from any other origin is
\* posted into the frame.
C26_RelayOneDestination ==
  [][\A i \in Vids, ty \in MessageTypes, o \in Origins :
       WindowMessage(i, ty, o)
         => /\ Len(posted'[i]) = 1
            /\ posted'[i][1].type = ty
            /\ posted'[i][1].to =
                 IF (views[i].html.src = "http://u1/" /\ o = "http://u1")
                      \/ (views[i].html.src = "http://u2/" /\ o = "http://u2")
                 THEN IF ty \in {"keyup", "keydown"} THEN "keyboard" ELSE "host"
                 ELSE "frame"
            /\ \A j \in Vids \ {i} : posted'[j] = <<>>]_vars

\* the page of a surface, live on the endpoint of the held process, has just
\* dispatched a key message of the endpoint's origin as a keyboard event
C26_Witness ==
  /\ traceViewerView # 0
  /\ traceViewerProcess \in Alive
  /\ views[traceViewerView].html.src = traceViewerUrl
  /\ traceViewerUrl = "http://u2/"
  /\ posted[traceViewerView] = <<[to |-> "keyboard", type |-> "keydown"]>>

\* C27: an exit or an error event of a process that is not the held one
\* leaves the handle, the endpoint and the restart flag as they are, and does
\* not end the input stream of the held process.
C27_StaleEventsIgnored ==
  [][\A p \in Pids :
       (/\ ProcessExit(p) \/ ProcessError(p)
        /\ traceViewerProcess # 0
        /\ p # traceViewerProcess)
         => /\ UNCHANGED <<traceViewerProcess, traceViewerUrl, restart>>
            /\ procs'[traceViewerProcess].stdinEnded
                 = procs[traceViewerProcess].stdinEnded]_vars

\* C28: whenever an endpoint is recorded (in an orchestrator that is not
\* disposed) a process is held, and the endpoint comes from the output of
\* that process: an externalization started for another process, or for one
\* that has exited, records and shows nothing.
C28_EndpointOfHeldProcess ==
  [][/\ (subscribed' /\ traceViewerUrl' # "") => traceViewerProcess' # 0
     /\ \A i \in 1..Len(pending) :
          (AsExternalUriResume(i) /\ pending[i].pid # traceViewerProcess)
            => UNCHANGED <<traceViewerUrl, views>>]_vars

\* C29: after dispose() a process is spawned only by a call of a caller: the
\* call that the exit handler makes for a pending restart spawns nothing once
\* the orchestrator is disposed.
C29_NoRestartAfterDispose ==
  [][\A t \in Tids :
       (StartStep(t) /\ ~subscribed /\ tasks[t].origin = "restart")
         => \A q \in Pids : ~Spawned(q)]_vars

\* C30: while the show setting is off and the orchestrator is subscribed to
\* it (so the handler has run for every change), no process is held, also
\* when the setting went off while a call was suspended at `await findNode`.
C30_NoHandleWhileShowOff ==
  (subscribed /\ ~showTrace) => traceViewerProcess = 0

====
